---- MODULE Spec2Model ----
(***************************************************************************)
(* Model of the two batch utilities of the repository:                     *)
(*   - scripts/extract-provision-contexts.py : the Context-Window          *)
(*     Extractor (PATTERN, extract_snippets, main);                        *)
(*   - analyze_cited_provisions.py : the Provision-Count Ranker            *)
(*     (find_all_json_files, analyze_provisions, main).                    *)
(* Texts are sequences of one-character strings.  Offsets are Python's     *)
(* 0-based offsets; At(text, i) reads the character at offset i.           *)
(***************************************************************************)
EXTENDS Integers, Sequences, FiniteSets, TLC

VARIABLES
    \* ---- Extractor (one invocation of main) ----
    request,        \* what json.load(sys.stdin) will meet
    pc,             \* position of main / extract_snippets
    decision_id,    \* main's local, after .get
    markdown_text,  \* main's local, after .get
    language,       \* main's local, after .get
    scan_pos,       \* offset at which PATTERN.finditer resumes
    found,          \* the matches the loop has iterated over, <<start, end>>
    match_start, match_end, raw_start, raw_end, clean_start, clean_end,
    used_fallback,  \* line 54 was executed in the last iteration
    snippets,       \* extract_snippets' local list
    called_extract, \* extract_snippets was invoked (line 93)
    result,         \* main's result object
    exc,            \* the exception caught at line 105, or NoExc
    stdout, stderr, exit_status,
    \* ---- Ranker (one run of main) ----
    dir_readable,   \* whether os.walk can list base_dir
    dir_files,      \* contents of the .json files under base_dir, walk order
    rpc,            \* position of the Ranker's main
    json_files,     \* main's local list (indices into dir_files)
    file_i,         \* loop index of line 52 (1-based, as enumerate(.., 1))
    decisions,      \* main's local list of records
    reported,       \* files for which "Error processing" was printed
    top_10,         \* decisions[:10] after the sort
    table_rows,     \* rows of the top-10 table printed so far
    stats           \* the summary statistics printed, or NoStats

evars == <<request, pc, decision_id, markdown_text, language, scan_pos, found,
           match_start, match_end, raw_start, raw_end, clean_start, clean_end,
           used_fallback, snippets, called_extract, result, exc,
           stdout, stderr, exit_status>>

rvars == <<dir_readable, dir_files, rpc, json_files, file_i, decisions,
           reported, top_10, table_rows, stats>>

vars == <<evars, rvars>>

(***************************************************************************)
(* Bounds of the model.                                                    *)
(***************************************************************************)
\* Window size.  The source sets 250 (line 29); the model scans texts of a
\* few tokens, so the window is scaled to stay shorter than the texts.
CONTEXT_WINDOW_SIZE == 2

\* Number of tokens (a keyword form or a single character) of an input text.
MaxTokens == 4

\* Number of tokens of the texts sent with the non-default request shapes.
MaxReqTokens == 1

(***************************************************************************)
(* Characters.                                                             *)
(***************************************************************************)
At(text, i) == text[i + 1]

\* str.lower() for the characters of the model's alphabet (re.IGNORECASE).
Lower(c) == IF c = "A" THEN "a" ELSE c

\* \w of Python's re: letters, digits, underscore.
WordChars == {"a", "r", "t", "i", "c", "l", "e", "s", "k", "n", "x", "A"}
IsWordChar(c) == c \in WordChars

\* \s of Python's re; str.strip() strips the same characters.
IsWhitespace(c) == c \in {" ", "\n"}

(***************************************************************************)
(* PATTERN (lines 17-26).                                                  *)
(***************************************************************************)
KEYWORDS ==
    << <<"a","r","t","i","c","l","e">>,
       <<"a","r","t","i","c","l","e","s">>,
       <<"a","r","t","i","k","e","l">>,
       <<"a","r","t","i","k","e","l","s">>,
       <<"a","r","t","i","k","e","l","e","n">>,
       <<"a","r","t",".">>,
       <<"a","r","t","t",".">>,
       <<"a","r","t","s",".">> >>

\* \b at offset p: exactly one of the characters at p-1 and p is a word
\* character (a text bound counts as a non-word character).
WordBoundary(text, p) ==
    LET before == p > 0 /\ IsWordChar(At(text, p - 1))
        after  == p < Len(text) /\ IsWordChar(At(text, p))
    IN  before # after

\* The literal kw read at offset p, ignoring case.
LiteralAt(text, p, kw) ==
    /\ p + Len(kw) <= Len(text)
    /\ \A j \in 1..Len(kw) : Lower(At(text, p + j - 1)) = kw[j]

\* Alternative k of the group followed by the closing \b.
AlternativeAt(text, p, k) ==
    /\ LiteralAt(text, p, KEYWORDS[k])
    /\ WordBoundary(text, p + Len(KEYWORDS[k]))

\* End offset of the match of PATTERN that starts at p, or -1.  The
\* alternatives are tried in the order of KEYWORDS.
PatternMatchEnd(text, p) ==
    IF WordBoundary(text, p) /\ \E k \in 1..Len(KEYWORDS) : AlternativeAt(text, p, k)
    THEN LET k == CHOOSE k \in 1..Len(KEYWORDS) :
                     /\ AlternativeAt(text, p, k)
                     /\ \A j \in 1..(k - 1) : ~AlternativeAt(text, p, j)
         IN  p + Len(KEYWORDS[k])
    ELSE -1

\* Start offset of the next match of PATTERN.finditer at or after from, or -1.
NextMatchStart(text, from) ==
    LET starts == {p \in from..Len(text) : PatternMatchEnd(text, p) # -1}
    IN  IF starts = {} THEN -1
        ELSE CHOOSE p \in starts : \A q \in starts : p <= q

(***************************************************************************)
(* str.rfind, str.find, slicing, whitespace normalisation.                 *)
(***************************************************************************)
Max(a, b) == IF a >= b THEN a ELSE b
Min(a, b) == IF a <= b THEN a ELSE b

\* text.rfind(' ', 0, hi): the highest offset in [0, hi) holding a space.
RFindSpace(text, hi) ==
    LET hits == {i \in 0..(hi - 1) : At(text, i) = " "}
    IN  IF hits = {} THEN -1
        ELSE CHOOSE i \in hits : \A j \in hits : j <= i

\* text.find(' ', lo): the lowest offset >= lo holding a space.
FindSpace(text, lo) ==
    LET hits == {i \in lo..(Len(text) - 1) : At(text, i) = " "}
    IN  IF hits = {} THEN -1
        ELSE CHOOSE i \in hits : \A j \in hits : i <= j

\* text[lo:hi]
Slice(text, lo, hi) ==
    IF lo >= hi THEN <<>> ELSE [j \in 1..(hi - lo) |-> At(text, lo + j - 1)]

\* re.sub(r'\s+', ' ', s): every maximal run of whitespace becomes one space.
RECURSIVE CollapseWhitespace(_)
CollapseWhitespace(s) ==
    IF s = <<>> THEN <<>>
    ELSE IF IsWhitespace(Head(s))
         THEN IF Len(s) > 1 /\ IsWhitespace(s[2])
              THEN CollapseWhitespace(Tail(s))
              ELSE <<" ">> \o CollapseWhitespace(Tail(s))
         ELSE <<Head(s)>> \o CollapseWhitespace(Tail(s))

\* s.strip()
Strip(s) ==
    LET keep == {i \in 1..Len(s) : ~IsWhitespace(s[i])}
    IN  IF keep = {} THEN <<>>
        ELSE LET lo == CHOOSE i \in keep : \A j \in keep : i <= j
                 hi == CHOOSE i \in keep : \A j \in keep : j <= i
             IN  [j \in 1..(hi - lo + 1) |-> s[lo + j - 1]]

\* Normalize without the final strip().
NormalizeWithoutStrip(s) == CollapseWhitespace(s)

\* line 65
Normalize(s) == Strip(CollapseWhitespace(s))

(***************************************************************************)
(* Window arithmetic of extract_snippets (lines 47-59).                    *)
(***************************************************************************)
RawStart(ms) == Max(0, ms - CONTEXT_WINDOW_SIZE)
RawEnd(text, me) == Min(Len(text), me + CONTEXT_WINDOW_SIZE)

\* The fallback test without its second conjunct (raw_start > 0).
TakesFallbackWhenNoSpace(text, rs) == RFindSpace(text, rs) + 1 = 0

\* line 53: the fallback of line 54 is taken.
TakesFallback(text, rs) == RFindSpace(text, rs) + 1 = 0 /\ rs > 0

\* A left boundary that drops the partial word: the search for a space runs
\* forward from raw_start.
CleanStartDroppingWord(text, rs) ==
    IF FindSpace(text, rs) = -1 THEN rs ELSE FindSpace(text, rs) + 1

\* lines 52-54
CleanStart(text, rs) ==
    IF TakesFallback(text, rs) THEN rs ELSE RFindSpace(text, rs) + 1

\* lines 57-59
CleanEnd(text, re) ==
    IF FindSpace(text, re) = -1 THEN Len(text) ELSE FindSpace(text, re)

(***************************************************************************)
(* JSON values met by main: a missing key, null, a number, a string.       *)
(***************************************************************************)
Absent == [t |-> "absent", v |-> <<>>]
Null   == [t |-> "null", v |-> <<>>]
Num    == [t |-> "num", v |-> <<>>]          \* a non-zero number
Str(s) == [t |-> "str", v |-> s]

\* A lone surrogate (JSON "\ud800"): json.load accepts it, the UTF-8 encoder
\* of sys.stdout does not.
Surrogate == "\\ud800"

\* dict.get(key, default)
Get(value, default) == IF value.t = "absent" THEN default ELSE value

\* An "is not None" test in place of the truth value.
TruthyUnlessNull(value) == value.t \in {"num", "str"}

\* Python truth value of a JSON value (line 84: "not markdown_text").
Truthy(value) ==
    \/ value.t = "num"
    \/ value.t = "str" /\ value.v # <<>>

\* The text stream can encode the string.
Encodable(s) == \A i \in 1..Len(s) : s[i] # Surrogate

(***************************************************************************)
(* Input texts: a sequence of tokens, each a keyword form or one           *)
(* character.                                                              *)
(***************************************************************************)
KeywordForms ==
    {KEYWORDS[k] : k \in 1..Len(KEYWORDS)}
        \cup { <<"A","r","t",".">>, <<"A","r","t","i","c","l","e">> }

TextChars == {" ", "\n", "x", "."}

RECURSIVE Flatten(_, _)
Flatten(shape, kw) ==
    IF shape = <<>> THEN <<>>
    ELSE (IF Head(shape) = "K" THEN kw ELSE <<Head(shape)>>) \o Flatten(Tail(shape), kw)

Shapes(n, chars) == UNION {[1..m -> chars \cup {"K"}] : m \in 0..n}

Texts(n, chars) == {Flatten(sh, kw) : sh \in Shapes(n, chars), kw \in KeywordForms}

\* Requests with every field present and well-formed, over all the texts.
PlainRequests ==
    {[kind |-> "object", decision_id |-> Str(<<"D">>),
      markdown_text |-> Str(t), language |-> Str(<<"N", "L">>)] :
        t \in Texts(MaxTokens, TextChars)}

\* Requests of every shape, over short texts.
ShapedRequests ==
    {[kind |-> "object", decision_id |-> d, markdown_text |-> m, language |-> l] :
        d \in {Absent, Str(<<"D">>), Str(<<Surrogate>>)},
        m \in {Absent, Null, Num}
                \cup {Str(t) : t \in Texts(MaxReqTokens, TextChars \cup {Surrogate})},
        l \in {Absent, Str(<<"N", "L">>), Str(<<Surrogate>>)}}
    \cup
    {[kind |-> k, decision_id |-> Absent, markdown_text |-> Absent, language |-> Absent] :
        k \in {"malformed", "nonobject"}}

Requests == PlainRequests \cup ShapedRequests

(***************************************************************************)
(* Streams and results.                                                    *)
(***************************************************************************)
NoExc == [type |-> "none"]
NoResult == [decisionId |-> Absent, language |-> Absent, text_rows |-> <<>>, built |-> FALSE]
MakeResult(d, l, rows) == [decisionId |-> d, language |-> l, text_rows |-> rows, built |-> TRUE]

\* What json.dump has put on sys.stdout: the opening brace, the fields whose
\* value was written in full, the closing brace.
EmptyStream == [begun |-> FALSE, fields |-> <<>>, closed |-> FALSE]

ResultFields == <<"decisionId", "language", "text_rows">>

FieldEncodable(res, name) ==
    CASE name = "decisionId" -> res.decisionId.t = "str" => Encodable(res.decisionId.v)
      [] name = "language"   -> res.language.t = "str" => Encodable(res.language.v)
      [] name = "text_rows"  -> \A i \in 1..Len(res.text_rows) : Encodable(res.text_rows[i])

\* The fields json.dump writes before fp.write raises (all three when none does).
WrittenFields(res) ==
    LET bad == {i \in 1..Len(ResultFields) : ~FieldEncodable(res, ResultFields[i])}
        n   == IF bad = {} THEN Len(ResultFields)
               ELSE (CHOOSE i \in bad : \A j \in bad : i <= j) - 1
    IN  SubSeq(ResultFields, 1, n)

\* The list returned as collected, duplicates included.
ListWithDuplicates(snips) == {snips}

\* list(set(snippets)): the distinct snippets, in an order the set decides.
ListOfSet(snips) ==
    LET distinct == {snips[i] : i \in 1..Len(snips)}
        n == Cardinality(distinct)
    IN  {order \in [1..n -> distinct] : \A x \in distinct : \E i \in 1..n : order[i] = x}

(***************************************************************************)
(* The Extractor: main (lines 74-113) and extract_snippets (lines 32-71).  *)
(***************************************************************************)
ExtractorInit ==
    /\ request \in Requests
    /\ pc = "start"
    /\ decision_id = Absent
    /\ markdown_text = Absent
    /\ language = Absent
    /\ scan_pos = 0
    /\ found = <<>>
    /\ match_start = 0 /\ match_end = 0
    /\ raw_start = 0 /\ raw_end = 0
    /\ clean_start = 0 /\ clean_end = 0
    /\ used_fallback = FALSE
    /\ snippets = <<>>
    /\ called_extract = FALSE
    /\ result = NoResult
    /\ exc = NoExc
    /\ stdout = EmptyStream
    /\ stderr = <<>>
    /\ exit_status = -1

ScanLocals == <<scan_pos, found, match_start, match_end, raw_start, raw_end,
                clean_start, clean_end, used_fallback, snippets>>

\* lines 78-82: json.load(sys.stdin) and the three .get calls.
ReadRequest ==
    /\ pc = "start"
    /\ IF request.kind = "malformed"
       THEN /\ exc' = [type |-> "JSONDecodeError"]
            /\ pc' = "except"
            /\ UNCHANGED <<decision_id, markdown_text, language>>
       ELSE IF request.kind = "nonobject"
       THEN /\ exc' = [type |-> "AttributeError"]
            /\ pc' = "except"
            /\ UNCHANGED <<decision_id, markdown_text, language>>
       ELSE /\ decision_id' = Get(request.decision_id, Str(<<>>))
            /\ markdown_text' = Get(request.markdown_text, Str(<<>>))
            /\ language' = Get(request.language, Str(<<"F", "R">>))
            /\ pc' = "branch"
            /\ exc' = exc
    /\ UNCHANGED <<request, ScanLocals, called_extract, result, stdout, stderr, exit_status>>
    /\ UNCHANGED rvars

\* lines 84-90: empty input, empty result.
EmptyResult ==
    /\ pc = "branch"
    /\ ~Truthy(markdown_text)
    /\ result' = MakeResult(decision_id, language, <<>>)
    /\ pc' = "dump"
    /\ UNCHANGED <<request, decision_id, markdown_text, language, ScanLocals,
                   called_extract, exc, stdout, stderr, exit_status>>
    /\ UNCHANGED rvars

\* line 93, lines 39-42: the call, and PATTERN.finditer(text), which raises
\* TypeError when text is not a string.
CallExtract ==
    /\ pc = "branch"
    /\ Truthy(markdown_text)
    /\ called_extract' = TRUE
    /\ IF markdown_text.t = "str"
       THEN /\ pc' = "scan"
            /\ snippets' = <<>>
            /\ scan_pos' = 0
            /\ exc' = exc
       ELSE /\ pc' = "except"
            /\ exc' = [type |-> "TypeError"]
            /\ UNCHANGED <<snippets, scan_pos>>
    /\ UNCHANGED <<request, decision_id, markdown_text, language, found,
                   match_start, match_end, raw_start, raw_end, clean_start, clean_end,
                   used_fallback, result, stdout, stderr, exit_status>>
    /\ UNCHANGED rvars

\* lines 42-68: one iteration of the loop over the matches.
ScanMatch ==
    /\ pc = "scan"
    /\ LET text == markdown_text.v
           ms == NextMatchStart(text, scan_pos)
       IN  /\ ms # -1
           /\ LET me == PatternMatchEnd(text, ms)
                  rs == RawStart(ms)
                  re == RawEnd(text, me)
                  cs == CleanStart(text, rs)
                  ce == CleanEnd(text, re)
                  snippet == Normalize(Slice(text, cs, ce))
              IN  /\ match_start' = ms
                  /\ match_end' = me
                  /\ raw_start' = rs
                  /\ raw_end' = re
                  /\ used_fallback' = TakesFallback(text, rs)
                  /\ clean_start' = cs
                  /\ clean_end' = ce
                  /\ snippets' = IF snippet # <<>> THEN Append(snippets, snippet) ELSE snippets
                  /\ found' = Append(found, <<ms, me>>)
                  /\ scan_pos' = me
    /\ UNCHANGED <<request, pc, decision_id, markdown_text, language, called_extract,
                   result, exc, stdout, stderr, exit_status>>
    /\ UNCHANGED rvars

\* line 71 and lines 95-99: no match is left; deduplicate, return, build the result.
ReturnSnippets ==
    /\ pc = "scan"
    /\ NextMatchStart(markdown_text.v, scan_pos) = -1
    /\ \E rows \in ListOfSet(snippets) :
           result' = MakeResult(decision_id, language, rows)
    /\ pc' = "dump"
    /\ UNCHANGED <<request, decision_id, markdown_text, language, ScanLocals,
                   called_extract, exc, stdout, stderr, exit_status>>
    /\ UNCHANGED rvars

\* lines 102-103: json.dump(result, sys.stdout) writes chunk by chunk; a chunk
\* the stream cannot encode raises after the earlier chunks were written.
WriteResult ==
    /\ pc = "dump"
    /\ LET fields == WrittenFields(result)
       IN  IF Len(fields) = Len(ResultFields)
           THEN /\ stdout' = [begun |-> TRUE, fields |-> fields, closed |-> TRUE]
                /\ exit_status' = 0
                /\ pc' = "done"
                /\ exc' = exc
           ELSE /\ stdout' = [begun |-> TRUE, fields |-> fields, closed |-> FALSE]
                /\ exc' = [type |-> "UnicodeEncodeError"]
                /\ pc' = "except"
                /\ exit_status' = exit_status
    /\ UNCHANGED <<request, decision_id, markdown_text, language, ScanLocals,
                   called_extract, result, stderr>>
    /\ UNCHANGED rvars

\* lines 105-113: the handler.
HandleException ==
    /\ pc = "except"
    /\ stderr' = Append(stderr, [error |-> exc.type, type |-> exc.type])
    /\ exit_status' = 1
    /\ pc' = "done"
    /\ UNCHANGED <<request, decision_id, markdown_text, language, ScanLocals,
                   called_extract, result, exc, stdout>>
    /\ UNCHANGED rvars

ExtractorNext ==
    \/ ReadRequest
    \/ EmptyResult
    \/ CallExtract
    \/ ScanMatch
    \/ ReturnSnippets
    \/ WriteResult
    \/ HandleException

(***************************************************************************)
(* The Ranker: analyze_cited_provisions.py.                                *)
(***************************************************************************)
\* Number of .json files under the base directory.
MaxFiles == 3

\* Length of the ranking.  The source slices decisions[:10] (line 64); the
\* model ranks a handful of files, so the cut is scaled below their number.
TopN == 2

\* Length of the longest citedProvisions list.
MaxProvisions == 2

List(n) == [t |-> "list", v |-> [j \in 1..n |-> "p"]]

\* What a .json file can hold: it cannot be opened, it is not JSON, it is
\* JSON but no object, or it is an object with some of the three fields.
FileContents ==
    {[kind |-> k, decision_id |-> Absent, id |-> Absent, citedProvisions |-> Absent] :
        k \in {"unreadable", "malformed", "nonobject"}}
    \cup
    {[kind |-> "object", decision_id |-> Absent, id |-> i, citedProvisions |-> c] :
        i \in {Num, Null},
        c \in {Absent, Null} \cup {List(n) : n \in 1..MaxProvisions}}

Directories == UNION {[1..m -> FileContents] : m \in 0..MaxFiles}

NoStats == [printed |-> FALSE, count |-> 0, total |-> 0, avg |-> [num |-> 0, den |-> 1]]

\* lines 20-38.  path identifies json_file; it is kept in the record (field
\* file) so that the processing order of equal counts can be stated.
AnalyzeProvisions(content, path) ==
    IF \/ content.kind # "object"                  \* open / json.load / data.get raise
       \/ Get(content.citedProvisions, List(0)).t # "list"   \* len(None) raises
    THEN [ok |-> FALSE]
    ELSE [ok |-> TRUE,
          decision_id |-> Get(content.decision_id, Str(<<"U","n","k","n","o","w","n">>)),
          numeric_id |-> Get(content.id, Str(<<"U","n","k","n","o","w","n">>)),
          provision_count |-> Len(Get(content.citedProvisions, List(0)).v),
          file |-> path]

\* An insertion that goes before the records of equal count: ties come out in
\* reverse processing order.
InsertBeforeEqual(sorted, r) ==
    LET k == Cardinality({i \in 1..Len(sorted) :
                              sorted[i].provision_count > r.provision_count})
    IN  SubSeq(sorted, 1, k) \o <<r>> \o SubSeq(sorted, k + 1, Len(sorted))

\* One step of the stable sort: r goes behind every record whose count is not
\* smaller than its own.
InsertDescending(sorted, r) ==
    LET k == Cardinality({i \in 1..Len(sorted) :
                              sorted[i].provision_count >= r.provision_count})
    IN  SubSeq(sorted, 1, k) \o <<r>> \o SubSeq(sorted, k + 1, Len(sorted))

\* line 61: list.sort(key=provision_count, reverse=True), a stable sort.
RECURSIVE SortDescending(_)
SortDescending(recs) ==
    IF recs = <<>> THEN <<>>
    ELSE InsertDescending(SortDescending(SubSeq(recs, 1, Len(recs) - 1)), recs[Len(recs)])

\* line 64: decisions[:10]
Top(recs) == SubSeq(recs, 1, Min(TopN, Len(recs)))

\* line 73: format(numeric_id, '<12') raises TypeError for None.
Formattable(value) == value.t # "null"

RECURSIVE SumCounts(_)
SumCounts(recs) ==
    IF recs = <<>> THEN 0 ELSE recs[1].provision_count + SumCounts(Tail(recs))

\* lines 78-79
Statistics(recs) ==
    [printed |-> TRUE,
     count |-> Len(recs),
     total |-> SumCounts(recs),
     avg |-> IF Len(recs) # 0 THEN [num |-> SumCounts(recs), den |-> Len(recs)]
             ELSE [num |-> 0, den |-> 1]]

\* lines 11-18: os.walk swallows the error of a directory it cannot list.
FindAllJsonFiles(readable, files) ==
    IF readable THEN [j \in 1..Len(files) |-> j] ELSE <<>>

RankerInit ==
    /\ dir_readable \in BOOLEAN
    /\ dir_files \in (IF dir_readable THEN Directories ELSE {<<>>})
    /\ rpc = "start"
    /\ json_files = <<>>
    /\ file_i = 1
    /\ decisions = <<>>
    /\ reported = <<>>
    /\ top_10 = <<>>
    /\ table_rows = <<>>
    /\ stats = NoStats

\* lines 44-49
FindFiles ==
    /\ rpc = "start"
    /\ json_files' = FindAllJsonFiles(dir_readable, dir_files)
    /\ rpc' = "loop"
    /\ UNCHANGED <<dir_readable, dir_files, file_i, decisions, reported, top_10,
                   table_rows, stats>>
    /\ UNCHANGED evars

\* lines 52-58: one file.
ProcessFile ==
    /\ rpc = "loop"
    /\ file_i <= Len(json_files)
    /\ LET r == AnalyzeProvisions(dir_files[json_files[file_i]], json_files[file_i])
       IN  IF r.ok
           THEN /\ decisions' = Append(decisions, r)
                /\ reported' = reported
           ELSE /\ reported' = Append(reported, json_files[file_i])
                /\ decisions' = decisions
    /\ file_i' = file_i + 1
    /\ UNCHANGED <<dir_readable, dir_files, rpc, json_files, top_10, table_rows, stats>>
    /\ UNCHANGED evars

\* lines 61-64
SortAndCut ==
    /\ rpc = "loop"
    /\ file_i > Len(json_files)
    /\ decisions' = SortDescending(decisions)
    /\ top_10' = Top(decisions')
    /\ rpc' = "table"
    /\ UNCHANGED <<dir_readable, dir_files, json_files, file_i, reported, table_rows, stats>>
    /\ UNCHANGED evars

\* lines 72-73: one row; a numeric_id that cannot be formatted raises an
\* exception nothing catches.
PrintRow ==
    /\ rpc = "table"
    /\ Len(table_rows) < Len(top_10)
    /\ LET d == top_10[Len(table_rows) + 1]
       IN  IF Formattable(d.numeric_id)
           THEN /\ table_rows' = Append(table_rows, d)
                /\ rpc' = rpc
           ELSE /\ rpc' = "crashed"
                /\ table_rows' = table_rows
    /\ UNCHANGED <<dir_readable, dir_files, json_files, file_i, decisions, reported,
                   top_10, stats>>
    /\ UNCHANGED evars

\* lines 75-83
PrintStatistics ==
    /\ rpc = "table"
    /\ Len(table_rows) = Len(top_10)
    /\ stats' = Statistics(decisions)
    /\ rpc' = "done"
    /\ UNCHANGED <<dir_readable, dir_files, json_files, file_i, decisions, reported,
                   top_10, table_rows>>
    /\ UNCHANGED evars

RankerNext ==
    \/ FindFiles
    \/ ProcessFile
    \/ SortAndCut
    \/ PrintRow
    \/ PrintStatistics

(***************************************************************************)
(* Specifications: one per utility; the other utility does not run.        *)
(***************************************************************************)
ExtractorIdle ==
    /\ request = [kind |-> "malformed", decision_id |-> Absent,
                  markdown_text |-> Absent, language |-> Absent]
    /\ pc = "idle"
    /\ decision_id = Absent
    /\ markdown_text = Absent
    /\ language = Absent
    /\ scan_pos = 0
    /\ found = <<>>
    /\ match_start = 0 /\ match_end = 0
    /\ raw_start = 0 /\ raw_end = 0
    /\ clean_start = 0 /\ clean_end = 0
    /\ used_fallback = FALSE
    /\ snippets = <<>>
    /\ called_extract = FALSE
    /\ result = NoResult
    /\ exc = NoExc
    /\ stdout = EmptyStream
    /\ stderr = <<>>
    /\ exit_status = -1

RankerIdle ==
    /\ dir_readable = FALSE
    /\ dir_files = <<>>
    /\ rpc = "idle"
    /\ json_files = <<>>
    /\ file_i = 1
    /\ decisions = <<>>
    /\ reported = <<>>
    /\ top_10 = <<>>
    /\ table_rows = <<>>
    /\ stats = NoStats

Init == ExtractorInit /\ RankerIdle
Next == ExtractorNext
Spec == Init /\ [][Next]_vars

RankerSpecInit == RankerInit /\ ExtractorIdle
RankerSpecNext == RankerNext
RankerSpec == RankerSpecInit /\ [][RankerSpecNext]_vars

(***************************************************************************)
(* Properties of the Extractor (checked under Spec).                       *)
(***************************************************************************)
W == CONTEXT_WINDOW_SIZE

\* extract_snippets has iterated over at least one match of the text.
Iterated == pc \in {"scan", "dump", "except", "done"} /\ found # <<>>

TextOf(value) == IF value.t = "str" THEN value.v ELSE <<>>

NoSpaceIn(text, lo, hi) == \A i \in lo..(hi - 1) : At(text, i) # " "

\* sub occurs in s as a contiguous run.
Contains(s, sub) ==
    \E p \in 0..(Len(s) - Len(sub)) : \A j \in 1..Len(sub) : At(s, p + j - 1) = sub[j]

\* A keyword occurrence delimited on both sides by a non-word character or a
\* bound of the text.
WholeWordAt(text, p, kw) ==
    /\ LiteralAt(text, p, kw)
    /\ p = 0 \/ ~IsWordChar(At(text, p - 1))
    /\ p + Len(kw) = Len(text) \/ ~IsWordChar(At(text, p + Len(kw)))

WholeWordOccurrences(text) ==
    {m \in (0..Len(text)) \X (0..Len(text)) :
         \E k \in 1..Len(KEYWORDS) :
             /\ m[2] = m[1] + Len(KEYWORDS[k])
             /\ WholeWordAt(text, m[1], KEYWORDS[k])}

\* C1: once the scan of a text is over, the matches it iterated over are
\* exactly the whole-word occurrences of the eight keywords: every delimited
\* occurrence (the abbreviations followed by a space, punctuation or the end
\* of the text included) is a match, and every match is a keyword that is not
\* part of a larger word.
C1_WholeWordMatches ==
    (pc \in {"dump", "done"} /\ called_extract /\ markdown_text.t = "str")
        => {found[i] : i \in 1..Len(found)} = WholeWordOccurrences(markdown_text.v)

\* One normalized entry: not empty, no whitespace at either end, no
\* whitespace but single spaces, and a keyword inside.
WellFormedSnippet(s) ==
    /\ s # <<>>
    /\ ~IsWhitespace(s[1]) /\ ~IsWhitespace(s[Len(s)])
    /\ \A i \in 1..Len(s) : IsWhitespace(s[i]) => s[i] = " "
    /\ \A i \in 1..(Len(s) - 1) : ~(s[i] = " " /\ s[i + 1] = " ")
    /\ \E p \in 0..Len(s), k \in 1..Len(KEYWORDS) : LiteralAt(s, p, KEYWORDS[k])

\* C2: every entry collected or returned by extract_snippets is non-empty,
\* has no leading or trailing whitespace, holds no whitespace other than
\* single spaces and contains a keyword; the span [clean_start, clean_end)
\* covers the match [match_start, match_end), whose text the snippet holds.
C2_SnippetsNormalized ==
    /\ \A i \in 1..Len(snippets) : WellFormedSnippet(snippets[i])
    /\ \A i \in 1..Len(result.text_rows) : WellFormedSnippet(result.text_rows[i])
    /\ Iterated =>
          /\ clean_start <= match_start
          /\ match_end <= clean_end
          /\ snippets # <<>>
          /\ Contains(snippets[Len(snippets)],
                      Slice(markdown_text.v, match_start, match_end))

\* Witness of C2: a match whose span held whitespace that normalisation
\* removed (the snippet is shorter than the span).
C2_Witness ==
    /\ Iterated
    /\ snippets # <<>>
    /\ Len(snippets[Len(snippets)]) < clean_end - clean_start

C10_FallbackNearStart ==
    Iterated =>
        /\ used_fallback => match_start <= W
        /\ match_start > W =>
              /\ clean_start > 0
              /\ At(markdown_text.v, clean_start - 1) = " "

\* C10 amended: the fallback is taken exactly for a match that begins more
\* than W characters from the start of the text with no space before the raw
\* start; the span then begins W characters before the match, cutting the
\* word there.  The span of any other match further than W from the start
\* begins right after a space, and the span of a match within W characters
\* of the start begins at offset 0.
C10_FallbackFarFromStart ==
    Iterated =>
        LET text == markdown_text.v
        IN  /\ used_fallback <=> (match_start > W /\ NoSpaceIn(text, 0, match_start - W))
            /\ used_fallback => clean_start = match_start - W
            /\ (match_start > W /\ ~used_fallback) =>
                  /\ clean_start > 0
                  /\ At(text, clean_start - 1) = " "
            /\ match_start <= W => clean_start = 0

\* Witness of C10: the fallback was taken and the span begins inside a word.
C10_Witness ==
    /\ Iterated
    /\ used_fallback
    /\ IsWordChar(At(markdown_text.v, clean_start - 1))
    /\ IsWordChar(At(markdown_text.v, clean_start))

\* The matches of PATTERN.finditer over the whole text, from offset from on.
RECURSIVE MatchesFrom(_, _)
MatchesFrom(text, from) ==
    LET ms == NextMatchStart(text, from)
    IN  IF ms = -1 THEN {}
        ELSE {<<ms, PatternMatchEnd(text, ms)>>} \cup MatchesFrom(text, PatternMatchEnd(text, ms))

\* The normalized window of one match, computed on its own.
WindowOf(text, m) ==
    Normalize(Slice(text, CleanStart(text, RawStart(m[1])), CleanEnd(text, RawEnd(text, m[2]))))

\* C8: the returned list holds no string twice and, as a set, is the set of
\* the normalized windows of the matches taken one by one (no merging); the
\* set depends on the text alone, so a second run returns the same set.
C8_UniqueSnippetSet ==
    (result.built /\ called_extract) =>
        /\ \A i, j \in 1..Len(result.text_rows) :
               result.text_rows[i] = result.text_rows[j] => i = j
        /\ {result.text_rows[i] : i \in 1..Len(result.text_rows)}
               = {WindowOf(markdown_text.v, m) : m \in MatchesFrom(markdown_text.v, 0)}

\* Witness of C8: two matches gave the same snippet and one copy was returned.
C8_Witness ==
    /\ result.built
    /\ called_extract
    /\ Len(snippets) > Len(result.text_rows)

\* C9: text_rows is empty exactly when the text is empty or holds no match;
\* an empty text does not reach extract_snippets; every match contributes a
\* snippet; decisionId and language echo the request, "" and "FR" by default.
C9_EmptyIffNoMatch ==
    /\ Len(snippets) = Len(found)
    /\ result.built =>
          LET text == TextOf(markdown_text)
          IN  /\ result.text_rows = <<>> <=> (text = <<>> \/ NextMatchStart(text, 0) = -1)
              /\ text = <<>> => ~called_extract
              /\ result.decisionId = (IF request.decision_id = Absent THEN Str(<<>>)
                                      ELSE request.decision_id)
              /\ result.language = (IF request.language = Absent THEN Str(<<"F", "R">>)
                                    ELSE request.language)

\* Witness of C9: a request without decision_id and language whose text holds
\* a match ended well with a non-empty text_rows.
C9_Witness ==
    /\ pc = "done"
    /\ exit_status = 0
    /\ request.decision_id = Absent
    /\ request.language = Absent
    /\ result.text_rows # <<>>

\* C6: an invocation ends either with the whole result on standard output,
\* nothing on standard error and status 0, or with one error object on
\* standard error, a non-zero status and nothing at all on standard output.
C6_AllOrNothingOutput ==
    pc = "done" =>
        \/ /\ exit_status = 0
           /\ stdout.closed /\ stdout.fields = ResultFields
           /\ stderr = <<>>
        \/ /\ exit_status # 0
           /\ Len(stderr) = 1
           /\ ~stdout.begun

(***************************************************************************)
(* Properties of the Ranker (checked under RankerSpec).                    *)
(***************************************************************************)
Seen == {json_files[j] : j \in 1..(file_i - 1)}
ParsedFiles == {j \in Seen : AnalyzeProvisions(dir_files[j], j).ok}
Ranked == rpc \in {"table", "crashed", "done"}

\* C4: a file whose processing raises is reported and skipped and gives no
\* record; nothing aborts the run, which goes on to the table and to the
\* statistics, computed over the parsed records only, the average being 0
\* when there is none.
C4_BatchAlwaysCompletes ==
    /\ rpc # "crashed"
    /\ {decisions[i].file : i \in 1..Len(decisions)} = ParsedFiles
    /\ {reported[i] : i \in 1..Len(reported)} = Seen \ ParsedFiles
    /\ rpc = "done" =>
          /\ stats.printed
          /\ stats.count = Cardinality(ParsedFiles)
          /\ stats.total = SumCounts(decisions)
          /\ stats.count = 0 => stats.avg.num = 0

\* C5: the ranking has min(TopN, number of records) entries, in
\* non-increasing order of provision_count, equal counts in the order in
\* which their files were processed, and no record left out has a greater
\* count than a record in it.
C5_RankingSorted ==
    Ranked =>
        /\ Len(top_10) = Min(TopN, Cardinality(ParsedFiles))
        /\ \A i \in 1..(Len(top_10) - 1) :
               top_10[i].provision_count >= top_10[i + 1].provision_count
        /\ \A i, j \in 1..Len(top_10) :
               (i < j /\ top_10[i].provision_count = top_10[j].provision_count)
                   => top_10[i].file < top_10[j].file
        /\ \A f \in ParsedFiles :
               (\A i \in 1..Len(top_10) : top_10[i].file # f) =>
                   \A i \in 1..Len(top_10) :
                       AnalyzeProvisions(dir_files[f], f).provision_count
                           <= top_10[i].provision_count
        /\ \A i \in 1..Len(top_10) :
               /\ top_10[i].file \in ParsedFiles
               /\ top_10[i] = AnalyzeProvisions(dir_files[top_10[i].file], top_10[i].file)

\* Witness of C5: more records than the ranking holds, a tie inside the
\* ranking, and a record left out although its file was processed before
\* the files of the ranking.
C5_Witness ==
    /\ Ranked
    /\ Cardinality(ParsedFiles) > TopN
    /\ \E i \in 1..(Len(top_10) - 1) :
           top_10[i].provision_count = top_10[i + 1].provision_count
    /\ \E f \in ParsedFiles : \A i \in 1..Len(top_10) : f < top_10[i].file

\* C7: when the base directory cannot be read the run stops with a fatal
\* error; it prints neither a ranking nor statistics.
C7_UnreadableDirectoryIsFatal ==
    ~dir_readable => (rpc \notin {"table", "done"} /\ ~stats.printed)

====
